---- MODULE Spec2Model ----
(***************************************************************************)
(* Model of the real-time layer of TARS (src/src/api/websocket.py): the    *)
(* ConnectionManager registry, the per-connection receive loop of          *)
(* websocket_endpoint and the asyncio background tasks it creates.         *)
(*                                                                         *)
(* Everything runs on one asyncio event loop, so a step of the model is    *)
(* the code that runs between two suspension points of one coroutine:      *)
(*   - the receive loop suspends at `await websocket.receive_text()`;      *)
(*   - a background task suspends at `await ...send_text(...)`;            *)
(*   - the collaborator calls (subprocess.run, psutil) are synchronous:    *)
(*     while one runs, no other coroutine of the loop runs.  The variable  *)
(*     `running` holds the task that is inside such a call.                *)
(* Task.cancel() only requests cancellation; CancelledError is raised in   *)
(* the task at its next resumption and is a BaseException, so the          *)
(* `except Exception` handlers of the tasks do not catch it.               *)
(***************************************************************************)
EXTENDS Integers, Sequences, FiniteSets, TLC

\* ---- bounds -------------------------------------------------------------
MaxConns == 2      \* websocket objects that ever arrive
MaxTasks == 2      \* background tasks that are ever created
MaxEvents == 5     \* handshakes, inbound messages and transport breaks
MaxProcs == 3      \* processes in an enumerated process table
MaxDispatch == 4   \* events of a run of the dispatcher alone
MaxLive == 4       \* events of a run whose tasks are scheduled fairly
MaxTargets == 2    \* container ids and app names of a REST request

KeyOrder == <<"c1", "c2">>      \* connection_id path parameters
Keys   == {KeyOrder[i] : i \in 1..Len(KeyOrder)}
Topics == {"metrics"}           \* topic names; "" is a missing topic
Conns  == 1..MaxConns
Tasks  == 1..MaxTasks

\* the synchronous request types of the dispatcher
SyncTypes == {"get_system_info", "get_metrics", "get_processes",
              "kill_process", "get_containers", "get_network_stats"}

\* the synchronous requests that the clients of Spec send, and whether
\* their collaborator returns (TRUE) or raises (FALSE)
Requested == {"get_metrics"}
Returns   == {TRUE}

VARIABLES
    active_connections,  \* connection_id -> websocket   (dict, partial)
    subscriptions,       \* connection_id -> set of topics (dict, partial)
    background_tasks,    \* connection_id -> task          (dict, partial)
    task,                \* the asyncio tasks ever created
    conn,                \* per websocket: position of its endpoint coroutine
    alive,               \* per websocket: the transport still works
    delivered,           \* per websocket: the messages written to it, in order
    running,             \* the task inside a blocking collaborator call
    ntasks,              \* number of tasks created so far
    nevents,             \* number of handshakes, messages read and breaks so far
    ndropped,            \* history, per key: pushes dropped for want of a
                         \* registered websocket
    nfailed,             \* history, per key: pushes whose write raised
    torn,                \* history: tasks whose key was unregistered after
                         \* they were created
    superseded,          \* history: tasks that were in flight when a later
                         \* background request of their key was recorded
    proc_table,          \* the host: what psutil.process_iter yields
    limit,               \* the argument of a call of get_processes
    result,              \* whether get_processes was called, and its value
    request,             \* a POST .../{action} request of the REST API
    response             \* whether it was answered, and how

\* the host side of a call of get_processes, and the REST request
host == <<proc_table, limit, result, request, response>>

vars == <<active_connections, subscriptions, background_tasks, task, conn,
          alive, delivered, running, ntasks, nevents, ndropped, nfailed, torn,
          superseded, proc_table, limit, result, request, response>>

\* ---- dictionaries -------------------------------------------------------
\* del d[k]
Remove(d, k) == [x \in (DOMAIN d) \ {k} |-> d[x]]

\* d[k] = v
Put(d, k, v) == [x \in (DOMAIN d) \cup {k} |-> IF x = k THEN v ELSE d[x]]

\* ---- the state the manager's methods read and write ----------------------
State ==
    [active_connections |-> active_connections,
     subscriptions      |-> subscriptions,
     background_tasks   |-> background_tasks,
     task               |-> task,
     delivered          |-> delivered,
     ndropped           |-> ndropped,
     nfailed            |-> nfailed]

Commit(st) ==
    /\ active_connections' = st.active_connections
    /\ subscriptions'      = st.subscriptions
    /\ background_tasks'   = st.background_tasks
    /\ task'               = st.task
    /\ delivered'          = st.delivered
    /\ ndropped'           = st.ndropped
    /\ nfailed'            = st.nfailed

\* a task that has been created and has not ended
InFlight(t) == task[t].pc \in {"created", "awaiting_send", "calling"}

\* history: a task is torn once its key leaves active_connections, and
\* superseded once its connection creates a later task while it is in flight
History ==
    /\ torn' = torn \cup
        {t \in Tasks : /\ task[t].pc # "unused"
                       /\ task[t].connection_id \in DOMAIN active_connections
                       /\ task[t].connection_id \notin DOMAIN active_connections'}
    /\ superseded' = superseded \cup
        {t \in Tasks : /\ InFlight(t)
                       /\ \E u \in Tasks :
                            /\ task[u].pc = "unused" /\ task'[u].pc = "created"
                            /\ task'[u].origin = task[t].origin}
    /\ UNCHANGED host

\* ---- messages -----------------------------------------------------------
\* server -> client message; container_id 0 stands for "no such field"
Msg(type, status, container_id, message) ==
    [type |-> type, status |-> status, container_id |-> container_id,
     message |-> message]

NoTaskRec ==
    [pc |-> "unused", connection_id |-> "", container_id |-> 0,
     kind |-> "", cancel_requested |-> FALSE, origin |-> 0]

\* asyncio.Task.cancel(): no effect on a finished task, otherwise the
\* request is recorded and CancelledError is thrown at the next resumption
cancel(tk, t) ==
    IF tk[t].pc \in {"done", "cancelled"}
    THEN tk
    ELSE [tk EXCEPT ![t].cancel_requested = TRUE]

\* ---- ConnectionManager --------------------------------------------------
\* connect that registers the websocket and creates no subscription set
connect_channel_only(st, websocket, connection_id) ==
    [st EXCEPT !.active_connections = Put(@, connection_id, websocket)]

\* connect that empties the subscription set of every registered key
connect_resets_subscriptions(st, websocket, connection_id) ==
    [st EXCEPT
        !.active_connections = Put(@, connection_id, websocket),
        !.subscriptions      = [x \in (DOMAIN @) \cup {connection_id} |-> {}]]

connect(st, websocket, connection_id) ==
    [st EXCEPT
        !.active_connections = Put(@, connection_id, websocket),
        !.subscriptions      = Put(@, connection_id, {})]

\* disconnect that forgets the subscription set
disconnect_keeps_subscriptions(st, connection_id) ==
    LET s1 == IF connection_id \in DOMAIN st.active_connections
              THEN [st EXCEPT !.active_connections = Remove(@, connection_id)]
              ELSE st
    IN  IF connection_id \in DOMAIN s1.background_tasks
        THEN [s1 EXCEPT
                !.task = cancel(@, s1.background_tasks[connection_id]),
                !.background_tasks = Remove(@, connection_id)]
        ELSE s1

\* disconnect that cancels the task and keeps its handle
disconnect_keeps_handle(st, connection_id) ==
    LET s1 == IF connection_id \in DOMAIN st.active_connections
              THEN [st EXCEPT !.active_connections = Remove(@, connection_id)]
              ELSE st
        s2 == IF connection_id \in DOMAIN s1.subscriptions
              THEN [s1 EXCEPT !.subscriptions = Remove(@, connection_id)]
              ELSE s1
    IN  IF connection_id \in DOMAIN s2.background_tasks
        THEN [s2 EXCEPT
                !.task = cancel(@, s2.background_tasks[connection_id])]
        ELSE s2

\* disconnect that drops every subscription set, not only the key's
disconnect_clears_subscriptions(st, connection_id) ==
    LET s1 == IF connection_id \in DOMAIN st.active_connections
              THEN [st EXCEPT !.active_connections = Remove(@, connection_id)]
              ELSE st
        s2 == [s1 EXCEPT !.subscriptions = << >>]
    IN  IF connection_id \in DOMAIN s2.background_tasks
        THEN [s2 EXCEPT
                !.task = cancel(@, s2.background_tasks[connection_id]),
                !.background_tasks = Remove(@, connection_id)]
        ELSE s2

disconnect(st, connection_id) ==
    LET s1 == IF connection_id \in DOMAIN st.active_connections
              THEN [st EXCEPT !.active_connections = Remove(@, connection_id)]
              ELSE st
        s2 == IF connection_id \in DOMAIN s1.subscriptions
              THEN [s1 EXCEPT !.subscriptions = Remove(@, connection_id)]
              ELSE s1
    IN  IF connection_id \in DOMAIN s2.background_tasks
        THEN [s2 EXCEPT
                !.task = cancel(@, s2.background_tasks[connection_id]),
                !.background_tasks = Remove(@, connection_id)]
        ELSE s2

\* send_personal_message without the membership test: the lookup of an
\* absent key raises KeyError inside the try and the handler disconnects
send_personal_message_keyerror(st, message, connection_id) ==
    IF connection_id \in DOMAIN st.active_connections
    THEN LET ws == st.active_connections[connection_id]
         IN  IF alive[ws]
             THEN [st EXCEPT !.delivered[ws] = Append(@, message)]
             ELSE disconnect([st EXCEPT !.nfailed[connection_id] = @ + 1],
                             connection_id)
    ELSE disconnect([st EXCEPT !.ndropped[connection_id] = @ + 1],
                    connection_id)

\* send_text on a dead transport raises; the write is otherwise appended to
\* what the websocket has been sent.  nfailed and ndropped only count the
\* two ways in which nothing is written.
send_personal_message(st, message, connection_id) ==
    IF connection_id \in DOMAIN st.active_connections
    THEN LET ws == st.active_connections[connection_id]
         IN  IF alive[ws]
             THEN [st EXCEPT !.delivered[ws] = Append(@, message)]
             ELSE disconnect([st EXCEPT !.nfailed[connection_id] = @ + 1],
                             connection_id)
    ELSE [st EXCEPT !.ndropped[connection_id] = @ + 1]

\* subscribe with setdefault: a key that has no set is given one
subscribe_setdefault(st, connection_id, topic) ==
    IF connection_id \in DOMAIN st.subscriptions
    THEN [st EXCEPT !.subscriptions[connection_id] = @ \cup {topic}]
    ELSE [st EXCEPT !.subscriptions = Put(@, connection_id, {topic})]

subscribe(st, connection_id, topic) ==
    IF connection_id \in DOMAIN st.subscriptions
    THEN [st EXCEPT !.subscriptions[connection_id] = @ \cup {topic}]
    ELSE st

\* unsubscribe with set.remove: the KeyError of a topic that is not in the
\* set ends the session
unsubscribe_remove(st, connection_id, topic) ==
    IF connection_id \in DOMAIN st.subscriptions
    THEN IF topic \in st.subscriptions[connection_id]
         THEN [st EXCEPT !.subscriptions[connection_id] = @ \ {topic}]
         ELSE disconnect(st, connection_id)
    ELSE st

unsubscribe(st, connection_id, topic) ==
    IF connection_id \in DOMAIN st.subscriptions
    THEN [st EXCEPT !.subscriptions[connection_id] = @ \ {topic}]
    ELSE st

\* ---- linux_utils.get_processes --------------------------------------------
SmallLimit == 20     \* `if limit <= 20`
TopN       == 10     \* cpu_sorted[:10], mem_sorted[:10]
ProcCap    == 2000   \* `if len(all_processes) >= 2000: break`

Loads == 0..1        \* values of cpu_percent and of mem_bytes

\* the process tables with n processes: psutil yields one entry per pid
ProcLists(n) ==
    {[i \in 1..n |-> [pid |-> i, cpu_percent |-> f[i][1], mem_bytes |-> f[i][2]]] :
        f \in [1..n -> Loads \X Loads]}

\* a table of n processes whose cpu grows with the pid and whose memory
\* grows (same) or falls with it
Ramp(n, same) ==
    [i \in 1..n |-> [pid |-> i, cpu_percent |-> i,
                     mem_bytes |-> IF same THEN i ELSE n + 1 - i]]

\* the tables of the model: every small table, and tables with more than
\* TopN processes; fails: process_iter raises
Tables ==
    {[fails |-> b, procs |-> p] :
        b \in BOOLEAN,
        p \in UNION {ProcLists(n) : n \in 0..MaxProcs}
              \cup {Ramp(TopN + n, same) : n \in 1..MaxProcs, same \in BOOLEAN}}

Limits == (-1..MaxProcs) \cup {TopN + 1, SmallLimit, SmallLimit + 1}

cpu_percent(x) == x.cpu_percent
mem_bytes(x)   == x.mem_bytes

\* sorted(s, key=..., reverse=True), key[i] being the key of s[i]:
\* descending, and stable (entries with equal keys keep their order)
sorted_reverse(s, key) ==
    LET rank(i) == 1 + Cardinality({j \in 1..Len(s) :
                        \/ key[j] > key[i]
                        \/ key[j] = key[i] /\ j < i})
    IN  [p \in 1..Len(s) |-> s[CHOOSE i \in 1..Len(s) : rank(i) = p]]

\* s[:n] for n >= 0
Slice(s, n) == SubSeq(s, 1, IF n < Len(s) THEN n ELSE Len(s))

\* the loop over top_cpu + top_mem: an entry whose pid was not seen is
\* appended, and the loop breaks once len(combined) >= limit
RECURSIVE combine(_, _, _)
combine(rest, combined, lim) ==
    IF rest = << >>
    THEN combined
    ELSE LET proc == Head(rest)
             seen_pids == {combined[i].pid : i \in 1..Len(combined)}
         IN  IF proc.pid \notin seen_pids
             THEN IF Len(combined) + 1 >= lim
                  THEN Append(combined, proc)
                  ELSE combine(Tail(rest), Append(combined, proc), lim)
             ELSE combine(Tail(rest), combined, lim)

\* get_processes(limit) on a host whose process table is table
get_processes(table, lim) ==
    IF table.fails
    THEN << >>
    ELSE LET all_processes == Slice(table.procs, ProcCap)
         IN  IF lim <= SmallLimit
             THEN LET cpu_sorted == sorted_reverse(all_processes,
                                        [i \in 1..Len(all_processes) |->
                                            cpu_percent(all_processes[i])])
                      mem_sorted == sorted_reverse(all_processes,
                                        [i \in 1..Len(all_processes) |->
                                            mem_bytes(all_processes[i])])
                      top_cpu == Slice(cpu_sorted, TopN)
                      top_mem == Slice(mem_sorted, TopN)
                  IN  combine(top_cpu \o top_mem, << >>, lim)
             ELSE Slice(sorted_reverse(all_processes,
                            [i \in 1..Len(all_processes) |->
                                cpu_percent(all_processes[i])]), lim)

\* ---- linux_utils.get_docker_containers -------------------------------------
\* what the host's container runtime does with `docker ps`
Runtimes == {"up", "command_missing", "daemon_down", "ps_failed", "timeout"}

\* the module defines get_docker_containers twice and the second definition
\* is the one the name is bound to when websocket.py imports it.  It has no
\* `docker --version` probe and turns every failure into an Exception.
get_docker_containers(runtime) ==
    CASE runtime = "up"              -> [raised |-> FALSE, error |-> ""]
      [] runtime = "command_missing" ->
            [raised |-> TRUE, error |-> "Docker command not found"]
      [] runtime = "timeout"         ->
            [raised |-> TRUE, error |-> "Docker command timed out"]
      [] runtime \in {"daemon_down", "ps_failed"} ->
            [raised |-> TRUE, error |-> "Failed to get containers: "]

\* ---- app.py: POST /api/containers/{id}/{action}, /api/apps/{name}/{action} --
Targets      == 1..MaxTargets
ValidActions == {"start", "stop", "restart"}
Actions      == ValidActions \cup {"pause", "kill", "remove"}
Endpoints    == {"containers", "apps"}

\* what the command of the collaborator does
Commands(endpoint) ==
    {"ok", "nonzero_exit", "timeout", "command_missing"}
    \cup (IF endpoint = "apps" THEN {"script_missing"} ELSE {})

\* execute_container_action and execute_tars_app_action of linux_utils:
\* return a message or raise Exception
collaborator(endpoint, action, command) ==
    [raised |-> action \notin ValidActions \/ command # "ok"]

NoException == [class |-> "", status_code |-> 0]

\* the body of the endpoint's try
try_body(endpoint, action, command) ==
    IF action \notin ValidActions
    THEN [raised |-> TRUE, called |-> FALSE,
          exc |-> [class |-> "HTTPException", status_code |-> 400]]
    ELSE IF collaborator(endpoint, action, command).raised
         THEN [raised |-> TRUE, called |-> TRUE,
               exc |-> [class |-> "Exception", status_code |-> 0]]
         ELSE [raised |-> FALSE, called |-> TRUE, exc |-> NoException]

\* `except Exception` catches the instances of Exception and of its
\* subclasses; HTTPException is one
CaughtByExceptException(class) == class \in {"Exception", "HTTPException"}

\* the endpoint: the status of the answer and whether the collaborator was
\* called
execute_action(endpoint, action, command) ==
    LET body == try_body(endpoint, action, command)
    IN  IF ~body.raised
        THEN [status_code |-> 200, called |-> body.called]
        ELSE IF CaughtByExceptException(body.exc.class)
             THEN [status_code |-> 500, called |-> body.called]
             ELSE [status_code |-> body.exc.status_code, called |-> body.called]

NoRequest  == [endpoint |-> "", target |-> 0, action |-> "", command |-> ""]
NoResponse == [answered |-> FALSE, status_code |-> 0, called |-> FALSE]
Requests ==
    {r \in [endpoint : Endpoints, target : Targets, action : Actions,
            command : Commands("apps")] :
        r.command \in Commands(r.endpoint)}

\* ---- initial state -------------------------------------------------------
Init ==
    /\ active_connections = << >>
    /\ subscriptions = << >>
    /\ background_tasks = << >>
    /\ task = [t \in Tasks |-> NoTaskRec]
    /\ conn = [c \in Conns |-> [pc |-> "new", connection_id |-> ""]]
    /\ alive = [c \in Conns |-> TRUE]
    /\ delivered = [c \in Conns |-> << >>]
    /\ running = {}
    /\ ntasks = 0
    /\ nevents = 0
    /\ ndropped = [k \in Keys |-> 0]
    /\ nfailed = [k \in Keys |-> 0]
    /\ torn = {}
    /\ superseded = {}
    /\ proc_table = [fails |-> FALSE, procs |-> << >>]
    /\ limit = SmallLimit
    /\ result = [called |-> FALSE, value |-> << >>]
    /\ request = NoRequest
    /\ response = NoResponse

\* ---- websocket_endpoint: handshake --------------------------------------
\* websockets are numbered in their order of arrival
Arrived(c) == IF c = 1 THEN TRUE ELSE conn[c - 1].pc # "new"

\* keys are opaque: a connection uses a key that has been used before or
\* the first key that has not
KeyUsed(k) == \E d \in Conns : conn[d].connection_id = k
NextKey(k) ==
    \A i \in 1..Len(KeyOrder) :
        KeyOrder[i] = k => \A j \in 1..(i - 1) : KeyUsed(KeyOrder[j])

\* await manager.connect(websocket, connection_id) succeeds (when accept()
\* raises, the endpoint returns and nothing was registered)
Connect(c, k) ==
    /\ conn[c].pc = "new" /\ Arrived(c) /\ alive[c] /\ running = {}
    /\ NextKey(k) /\ nevents < MaxEvents
    /\ Commit(connect(State, c, k))
    /\ conn' = [conn EXCEPT ![c] = [pc |-> "loop", connection_id |-> k]]
    /\ nevents' = nevents + 1
    /\ UNCHANGED <<alive, running, ntasks>>
    /\ History

\* the client of an open connection goes away or its transport breaks
Break(c) ==
    /\ alive[c] /\ conn[c].pc = "loop"
    /\ nevents < MaxEvents
    /\ alive' = [alive EXCEPT ![c] = FALSE]
    /\ nevents' = nevents + 1
    /\ UNCHANGED <<active_connections, subscriptions, background_tasks, task,
                   conn, delivered, running, ntasks, ndropped, nfailed,
                   torn, superseded, host>>

\* ---- websocket_endpoint: one iteration of the receive loop --------------
\* the coroutine is suspended in receive_text() and the event loop is free
AtReceive(c) == conn[c].pc = "loop" /\ running = {}

\* a message is read (it may have been buffered before the transport broke)
Reads(c) == AtReceive(c) /\ nevents < MaxEvents

LoopAgain ==
    /\ nevents' = nevents + 1
    /\ UNCHANGED <<conn, alive, running, ntasks>>
    /\ History

\* {"type": "subscribe", "topic": topic}; "" is a missing or empty topic
RecvSubscribe(c, topic) ==
    /\ Reads(c)
    /\ Commit(IF topic # ""
              THEN subscribe(State, conn[c].connection_id, topic)
              ELSE State)
    /\ LoopAgain

RecvUnsubscribe(c, topic) ==
    /\ Reads(c)
    /\ Commit(IF topic # ""
              THEN unsubscribe(State, conn[c].connection_id, topic)
              ELSE State)
    /\ LoopAgain

\* the reply type of a synchronous request whose collaborator returned
ReplyType(type) ==
    CASE type = "get_system_info"   -> "system_info"
      [] type = "get_metrics"       -> "metrics"
      [] type = "get_processes"     -> "processes_data"
      [] type = "kill_process"      -> "process_kill_result"
      [] type = "get_containers"    -> "containers_data"
      [] type = "get_network_stats" -> "network_stats"

\* the prefix of the error text of a synchronous request whose collaborator
\* raised
ErrorPrefix(type) ==
    CASE type = "get_system_info"   -> "Failed to fetch system info: "
      [] type = "get_metrics"       -> "Failed to fetch metrics: "
      [] type = "get_processes"     -> "Failed to fetch processes: "
      [] type = "kill_process"      -> "Failed to kill process: "
      [] type = "get_containers"    -> "Failed to fetch containers: "
      [] type = "get_network_stats" -> "Failed to fetch network stats: "

\* the collaborators of the synchronous requests that can raise:
\* get_processes catches every Exception and returns []
Outcomes(type) == IF type = "get_processes" THEN {TRUE} ELSE BOOLEAN

\* a synchronous request whose collaborator failure is not caught at the
\* call: the exception reaches the handlers around the loop
RecvSync_uncaught(c, type, ok) ==
    /\ Reads(c)
    /\ nevents' = nevents + 1
    /\ IF ok
       THEN /\ Commit(send_personal_message(State,
                        Msg(ReplyType(type), "", 0, ""), conn[c].connection_id))
            /\ UNCHANGED <<conn, alive, running, ntasks>>
            /\ History
       ELSE /\ Commit(disconnect(State, conn[c].connection_id))
            /\ conn' = [conn EXCEPT ![c].pc = "closed"]
            /\ UNCHANGED <<alive, running, ntasks>>
            /\ History

\* a synchronous request whose reply push is followed by the error push,
\* as if a reply that could not be written raised into the `except`
RecvSync_reply_then_error(c, type, ok) ==
    /\ Reads(c)
    /\ LET s1 == send_personal_message(State,
                    IF ok THEN Msg(ReplyType(type), "", 0, "")
                          ELSE Msg("error", "", 0, ErrorPrefix(type)),
                    conn[c].connection_id)
       IN  Commit(IF ok
                  THEN send_personal_message(s1,
                          Msg("error", "", 0, ErrorPrefix(type)),
                          conn[c].connection_id)
                  ELSE s1)
    /\ LoopAgain

\* a synchronous request: the collaborator is called in the loop itself and
\* returns (ok) or raises; one reply is pushed
RecvSync(c, type, ok) ==
    /\ Reads(c)
    /\ Commit(send_personal_message(State,
                IF ok THEN Msg(ReplyType(type), "", 0, "")
                      ELSE Msg("error", "", 0, ErrorPrefix(type)),
                conn[c].connection_id))
    /\ LoopAgain

\* {"type": "get_containers"} on a host whose container runtime is `runtime`
RecvGetContainers(c, runtime) ==
    RecvSync(c, "get_containers", ~get_docker_containers(runtime).raised)

\* asyncio.create_task(coro); manager.background_tasks[connection_id] = task
create_task(st, t, c, kind) ==
    [st EXCEPT
        !.task[t] = [pc |-> "created", connection_id |-> conn[c].connection_id,
                     container_id |-> t, kind |-> kind,
                     cancel_requested |-> FALSE, origin |-> c],
        !.background_tasks = Put(@, conn[c].connection_id, t)]

\* {"type": "container_action", ...}; valid: container_id and action are
\* both present.  The request of task t names container t.
RecvContainerAction(c, valid) ==
    /\ Reads(c)
    /\ IF valid
       THEN /\ ntasks < MaxTasks
            /\ Commit(create_task(State, ntasks + 1, c, "action"))
            /\ ntasks' = ntasks + 1
       ELSE /\ Commit(State)
            /\ UNCHANGED ntasks
    /\ nevents' = nevents + 1
    /\ UNCHANGED <<conn, alive, running>>
    /\ History

\* {"type": "get_container_logs", ...}; valid: container_id is present
RecvGetContainerLogs(c, valid) ==
    /\ Reads(c)
    /\ IF valid
       THEN /\ ntasks < MaxTasks
            /\ Commit(create_task(State, ntasks + 1, c, "logs"))
            /\ ntasks' = ntasks + 1
       ELSE /\ Commit(State)
            /\ UNCHANGED ntasks
    /\ nevents' = nevents + 1
    /\ UNCHANGED <<conn, alive, running>>
    /\ History

\* a dispatcher with a final `else` that answers an unknown type
RecvUnknown_replies(c) ==
    /\ Reads(c)
    /\ Commit(send_personal_message(State,
                Msg("error", "", 0, "Unknown message type: "),
                conn[c].connection_id))
    /\ LoopAgain

\* a JSON object whose type is none of the recognized tags
RecvUnknown(c) ==
    /\ Reads(c)
    /\ Commit(State)
    /\ LoopAgain

\* the loop is left through an exception handler: disconnect and return
LoopExit(c) ==
    /\ Commit(disconnect(State, conn[c].connection_id))
    /\ conn' = [conn EXCEPT ![c].pc = "closed"]
    /\ UNCHANGED <<alive, running, ntasks>>
    /\ History

\* a payload that json.loads rejects (JSONDecodeError) or that is not a JSON
\* object (message.get raises AttributeError): `except Exception`
RecvMalformed(c) ==
    /\ Reads(c)
    /\ nevents' = nevents + 1
    /\ LoopExit(c)

\* receive_text() raises WebSocketDisconnect
RecvDisconnect(c) ==
    /\ AtReceive(c) /\ ~alive[c]
    /\ UNCHANGED nevents
    /\ LoopExit(c)

\* ---- background tasks ---------------------------------------------------
\* create_task schedules the first step of a task with call_soon, and the
\* event loop runs what call_soon scheduled in order: a task takes its first
\* step after the first step of every task created before it
FirstReady(t) ==
    task[t].pc = "created" => \A u \in Tasks : u < t => task[u].pc # "created"

\* CancelledError is thrown into a task that was cancelled while it had not
\* started or was suspended
TaskCancelled(t) ==
    /\ task[t].pc \in {"created", "awaiting_send"} /\ task[t].cancel_requested
    /\ FirstReady(t) /\ running = {}
    /\ task' = [task EXCEPT ![t].pc = "cancelled"]
    /\ UNCHANGED <<active_connections, subscriptions, background_tasks, conn,
                   alive, delivered, running, ntasks, nevents, ndropped, nfailed,
                   torn, superseded, host>>

\* handle_container_action, first step: push in_progress.  The coroutine is
\* suspended in send_text when the push was attempted (a push that raised
\* may also not have suspended); otherwise it goes on to the collaborator.
ActionStart(t, suspends) ==
    /\ task[t].pc = "created" /\ task[t].kind = "action" /\ FirstReady(t)
    /\ ~task[t].cancel_requested /\ running = {}
    /\ LET k  == task[t].connection_id
           st == send_personal_message(State,
                    Msg("container_action_result", "in_progress",
                        task[t].container_id, ""), k)
           attempted == k \in DOMAIN active_connections
           raised    == attempted /\ ~alive[active_connections[k]]
       IN  /\ suspends => attempted
           /\ ~suspends => (~attempted \/ raised)
           /\ Commit([st EXCEPT !.task[t].pc =
                         IF suspends THEN "awaiting_send" ELSE "calling"])
           /\ running' = IF suspends THEN {} ELSE {t}
    /\ UNCHANGED <<conn, alive, ntasks, nevents>>
    /\ History

\* handle_container_action resumes after the in_progress push and enters
\* execute_container_action (subprocess.run: blocks the event loop)
ActionResume(t) ==
    /\ task[t].pc = "awaiting_send" /\ ~task[t].cancel_requested
    /\ running = {}
    /\ task' = [task EXCEPT ![t].pc = "calling"]
    /\ running' = {t}
    /\ UNCHANGED <<active_connections, subscriptions, background_tasks, conn,
                   alive, delivered, ntasks, nevents, ndropped, nfailed, torn,
                   superseded, host>>

\* stream_container_logs, first step: enters cli_get_container_logs
LogsStart(t) ==
    /\ task[t].pc = "created" /\ task[t].kind = "logs" /\ FirstReady(t)
    /\ ~task[t].cancel_requested /\ running = {}
    /\ task' = [task EXCEPT ![t].pc = "calling"]
    /\ running' = {t}
    /\ UNCHANGED <<active_connections, subscriptions, background_tasks, conn,
                   alive, delivered, ntasks, nevents, ndropped, nfailed, torn,
                   superseded, host>>

\* the terminal message of a task whose collaborator returned (ok) or raised
Terminal(t, ok) ==
    IF task[t].kind = "action"
    THEN Msg("container_action_result", IF ok THEN "success" ELSE "error",
             task[t].container_id, "")
    ELSE Msg(IF ok THEN "container_logs" ELSE "container_logs_error", "",
             task[t].container_id, "")

\* the end of a task whose error push is in a `finally`: a call that
\* returned is followed by the success push and by the error push
TaskCallEnd_finally(t, ok) ==
    /\ task[t].pc = "calling" /\ running = {t}
    /\ LET s1 == send_personal_message(State, Terminal(t, ok),
                                       task[t].connection_id)
           st == IF ok
                 THEN send_personal_message(s1, Terminal(t, FALSE),
                                            task[t].connection_id)
                 ELSE s1
       IN  Commit([st EXCEPT !.task[t].pc =
                      IF st.task[t].cancel_requested THEN "cancelled"
                                                     ELSE "done"])
    /\ running' = {}
    /\ UNCHANGED <<conn, alive, ntasks, nevents>>
    /\ History

\* the end of a task whose `except` swallows the failure: a call that
\* raised pushes nothing
TaskCallEnd_swallow(t, ok) ==
    /\ task[t].pc = "calling" /\ running = {t}
    /\ LET st == IF ok
                 THEN send_personal_message(State, Terminal(t, ok),
                                            task[t].connection_id)
                 ELSE State
       IN  Commit([st EXCEPT !.task[t].pc =
                      IF st.task[t].cancel_requested THEN "cancelled"
                                                     ELSE "done"])
    /\ running' = {}
    /\ UNCHANGED <<conn, alive, ntasks, nevents>>
    /\ History

\* the collaborator call returns or raises, the terminal message is pushed
\* and the coroutine ends
TaskCallEnd(t, ok) ==
    /\ task[t].pc = "calling" /\ running = {t}
    /\ LET st == send_personal_message(State, Terminal(t, ok),
                                       task[t].connection_id)
       IN  Commit([st EXCEPT !.task[t].pc =
                      IF st.task[t].cancel_requested THEN "cancelled"
                                                     ELSE "done"])
    /\ running' = {}
    /\ UNCHANGED <<conn, alive, ntasks, nevents>>
    /\ History

\* ---- specification ------------------------------------------------------
Next ==
    \/ \E c \in Conns, k \in Keys : Connect(c, k)
    \/ \E c \in Conns : Break(c)
    \/ \E c \in Conns, topic \in Topics \cup {""} : RecvSubscribe(c, topic)
    \/ \E c \in Conns, topic \in Topics \cup {""} : RecvUnsubscribe(c, topic)
    \/ \E c \in Conns, type \in Requested, ok \in Returns : RecvSync(c, type, ok)
    \/ \E c \in Conns, valid \in BOOLEAN : RecvContainerAction(c, valid)
    \/ \E c \in Conns, valid \in BOOLEAN : RecvGetContainerLogs(c, valid)
    \/ \E c \in Conns : RecvUnknown(c)
    \/ \E c \in Conns : RecvMalformed(c)
    \/ \E c \in Conns : RecvDisconnect(c)
    \/ \E t \in Tasks : TaskCancelled(t)
    \/ \E t \in Tasks, suspends \in BOOLEAN : ActionStart(t, suspends)
    \/ \E t \in Tasks : ActionResume(t)
    \/ \E t \in Tasks : LogsStart(t)
    \/ \E t \in Tasks, ok \in BOOLEAN : TaskCallEnd(t, ok)

Spec == Init /\ [][Next]_vars

TypeOK ==
    /\ DOMAIN active_connections \subseteq Keys
    /\ \A k \in DOMAIN active_connections : active_connections[k] \in Conns
    /\ DOMAIN subscriptions \subseteq Keys
    /\ \A k \in DOMAIN subscriptions : subscriptions[k] \subseteq Topics
    /\ DOMAIN background_tasks \subseteq Keys
    /\ \A k \in DOMAIN background_tasks : background_tasks[k] \in Tasks
    /\ running \subseteq Tasks /\ Cardinality(running) <= 1
    /\ ntasks \in 0..MaxTasks /\ nevents \in 0..MaxEvents
    /\ torn \subseteq Tasks /\ superseded \subseteq Tasks
    /\ ndropped \in [Keys -> Nat] /\ nfailed \in [Keys -> Nat]

\* ---- get_processes on every host and limit --------------------------------
InitProcesses ==
    /\ active_connections = << >>
    /\ subscriptions = << >>
    /\ background_tasks = << >>
    /\ task = [t \in Tasks |-> NoTaskRec]
    /\ conn = [c \in Conns |-> [pc |-> "new", connection_id |-> ""]]
    /\ alive = [c \in Conns |-> TRUE]
    /\ delivered = [c \in Conns |-> << >>]
    /\ running = {}
    /\ ntasks = 0
    /\ nevents = 0
    /\ ndropped = [k \in Keys |-> 0]
    /\ nfailed = [k \in Keys |-> 0]
    /\ torn = {}
    /\ superseded = {}
    /\ proc_table \in Tables
    /\ limit \in Limits
    /\ result = [called |-> FALSE, value |-> << >>]
    /\ request = NoRequest
    /\ response = NoResponse

\* processes = get_processes(limit)
CallGetProcesses ==
    /\ ~result.called
    /\ result' = [called |-> TRUE, value |-> get_processes(proc_table, limit)]
    /\ UNCHANGED <<active_connections, subscriptions, background_tasks, task,
                   conn, alive, delivered, running, ntasks, nevents, ndropped,
                   nfailed, torn, superseded, proc_table, limit, request,
                   response>>

NextProcesses == CallGetProcesses

SpecProcesses == InitProcesses /\ [][NextProcesses]_vars

\* ---- the REST action endpoints on every request ----------------------------
InitRest ==
    /\ active_connections = << >>
    /\ subscriptions = << >>
    /\ background_tasks = << >>
    /\ task = [t \in Tasks |-> NoTaskRec]
    /\ conn = [c \in Conns |-> [pc |-> "new", connection_id |-> ""]]
    /\ alive = [c \in Conns |-> TRUE]
    /\ delivered = [c \in Conns |-> << >>]
    /\ running = {}
    /\ ntasks = 0
    /\ nevents = 0
    /\ ndropped = [k \in Keys |-> 0]
    /\ nfailed = [k \in Keys |-> 0]
    /\ torn = {}
    /\ superseded = {}
    /\ proc_table = [fails |-> FALSE, procs |-> << >>]
    /\ limit = SmallLimit
    /\ result = [called |-> FALSE, value |-> << >>]
    /\ request \in Requests
    /\ response = NoResponse

\* the endpoint answers the request
CallExecuteAction ==
    /\ ~response.answered
    /\ LET r == execute_action(request.endpoint, request.action,
                               request.command)
       IN  response' = [answered |-> TRUE, status_code |-> r.status_code,
                        called |-> r.called]
    /\ UNCHANGED <<active_connections, subscriptions, background_tasks, task,
                   conn, alive, delivered, running, ntasks, nevents, ndropped,
                   nfailed, torn, superseded, proc_table, limit, result,
                   request>>

NextRest == CallExecuteAction

SpecRest == InitRest /\ [][NextRest]_vars

\* ---- the dispatcher alone: every synchronous request, no background task ---
\* the run has not used up its events
Dispatching == nevents < MaxDispatch

\* the topics the clients of the dispatcher name
DispatchTopics == Topics \cup {"processes"}

NextDispatch ==
    \/ \E c \in Conns, k \in Keys : Dispatching /\ Connect(c, k)
    \/ \E c \in Conns : Dispatching /\ Break(c)
    \/ \E c \in Conns, topic \in DispatchTopics \cup {""} :
          Dispatching /\ RecvSubscribe(c, topic)
    \/ \E c \in Conns, topic \in DispatchTopics \cup {""} :
          Dispatching /\ RecvUnsubscribe(c, topic)
    \/ \E c \in Conns, type \in SyncTypes \ {"get_containers"} :
          \E ok \in Outcomes(type) : Dispatching /\ RecvSync(c, type, ok)
    \/ \E c \in Conns, runtime \in Runtimes :
          Dispatching /\ RecvGetContainers(c, runtime)
    \/ \E c \in Conns : Dispatching /\ RecvUnknown(c)
    \/ \E c \in Conns : RecvDisconnect(c)

SpecDispatch == Init /\ [][NextDispatch]_vars

\* ---- the background tasks under the event loop's scheduling ---------------
\* a run of at most MaxLive handshakes, messages and breaks
Living == nevents < MaxLive

\* the next step of task t: the event loop runs every callback that is
\* ready, and the collaborator call returns or raises (subprocess.run is
\* given a timeout)
TaskStep(t) ==
    \/ TaskCancelled(t)
    \/ \E suspends \in BOOLEAN : ActionStart(t, suspends)
    \/ ActionResume(t)
    \/ LogsStart(t)
    \/ \E ok \in BOOLEAN : TaskCallEnd(t, ok)

NextLive ==
    \/ \E c \in Conns, k \in Keys : Living /\ Connect(c, k)
    \/ \E c \in Conns : Living /\ Break(c)
    \/ \E c \in Conns, type \in Requested, ok \in Returns :
          Living /\ RecvSync(c, type, ok)
    \/ \E c \in Conns : Living /\ RecvContainerAction(c, TRUE)
    \/ \E c \in Conns : Living /\ RecvGetContainerLogs(c, TRUE)
    \/ \E c \in Conns : Living /\ RecvMalformed(c)
    \/ \E c \in Conns : RecvDisconnect(c)
    \/ \E t \in Tasks : TaskStep(t)

SpecLive ==
    Init /\ [][NextLive]_vars /\ \A t \in Tasks : WF_vars(TaskStep(t))

\* ---- properties ---------------------------------------------------------
\* the message appended to websocket c in this step, if any
Pushed(c) == Len(delivered'[c]) > Len(delivered[c])
LastPushed(c) == delivered'[c][Len(delivered'[c])]

\* the positions, on any websocket, of the messages that satisfy P and name
\* a container of T
Positions(T, P(_)) ==
    {p \in Conns \X (1..(MaxEvents + 2 * MaxTasks)) :
        /\ p[2] <= Len(delivered[p[1]])
        /\ P(delivered[p[1]][p[2]])
        /\ delivered[p[1]][p[2]].container_id \in T}

IsTerminal(m) ==
    m.type = "container_action_result" /\ m.status \in {"success", "error"}

\* Task.cancel() has been called on t before the end of the step, or t had
\* already ended
CancelledAfter(t) ==
    task'[t].cancel_requested \/ task[t].pc \in {"done", "cancelled"}

\* C1: once the key of a task has been unregistered, no message of that task
\* is delivered on any websocket.
C1_NoDeliveryAfterTeardown ==
    [][\A c \in Conns :
          Pushed(c) => LastPushed(c).container_id \notin torn]_vars

\* C2: a session never has two background tasks in flight: a task that is in
\* flight when its session requests another one has been cancelled.
C2_AtMostOneTaskPerSession ==
    /\ \A t \in superseded :
          task[t].cancel_requested \/ task[t].pc = "cancelled"
    /\ \A t1, t2 \in Tasks :
          (t1 # t2 /\ InFlight(t1) /\ InFlight(t2)
                   /\ task[t1].origin = task[t2].origin)
          => (task[t1].cancel_requested \/ task[t2].cancel_requested)

\* C3: when a container_action is followed by a second one of the same
\* session before the first task completes, the first task's terminal
\* message is never delivered and the two tasks deliver one terminal
\* message: at most one ever, and one once the second task is done and no
\* push of the key was dropped or failed.
C3_OneTerminalMessage ==
    \A t1, t2 \in Tasks :
        (/\ t1 \in superseded /\ t1 < t2
         /\ task[t1].kind = "action" /\ task[t2].kind = "action"
         /\ task[t1].origin = task[t2].origin)
        => /\ Positions({t1}, IsTerminal) = {}
           /\ Cardinality(Positions({t1, t2}, IsTerminal)) <= 1
           /\ (/\ task[t2].pc = "done"
               /\ ndropped[task[t2].connection_id] = 0
               /\ nfailed[task[t2].connection_id] = 0)
              => Cardinality(Positions({t1, t2}, IsTerminal)) = 1

\* C4: a malformed inbound message is answered with one error message and
\* leaves the receive loop running and the session registered.
C4_MalformedKeepsSession ==
    [][\A c \in Conns :
          RecvMalformed(c)
          => /\ conn'[c].pc = "loop"
             /\ DOMAIN active_connections' = DOMAIN active_connections
             /\ (conn[c].connection_id \in DOMAIN active_connections
                 => \E d \in Conns : Pushed(d) /\ LastPushed(d).type = "error")
       ]_vars

\* C5: while a container action task of a registered, reachable session is
\* inside its collaborator call, the receive loop of its connection can read
\* and answer a get_metrics request.
C5_LoopNotBlocked ==
    \A t \in Tasks :
        (/\ task[t].pc = "calling" /\ task[t].kind = "action"
         /\ ~task[t].cancel_requested
         /\ task[t].connection_id \in DOMAIN active_connections
         /\ active_connections[task[t].connection_id] = task[t].origin
         /\ alive[task[t].origin]
         /\ conn[task[t].origin].pc = "loop" /\ nevents < MaxEvents)
        => ENABLED RecvSync(task[t].origin, "get_metrics", TRUE)

\* C6: a handshake for a key that is registered leaves the websocket and the
\* subscription set registered under the key as they were.
C6_DuplicateRejected ==
    [][\A c \in Conns, k \in Keys :
          (Connect(c, k) /\ k \in DOMAIN active_connections)
          => /\ active_connections'[k] = active_connections[k]
             /\ subscriptions'[k] = subscriptions[k]
       ]_vars

\* C7: every message of a background task is delivered on the websocket
\* whose request created the task.
C7_OnlyOriginatingChannel ==
    \A c \in Conns : \A i \in 1..Len(delivered[c]) :
        delivered[c][i].container_id # 0
        => task[delivered[c][i].container_id].origin = c

\* C8: a push to a key that has no registered websocket delivers nothing and
\* leaves active_connections, subscriptions and background_tasks unchanged.
C8_SendToUnregisteredIsNoOp ==
    [][ndropped' # ndropped
       => UNCHANGED <<active_connections, subscriptions, background_tasks,
                      delivered, nfailed, conn>>]_vars

\* a push under a key has been dropped and the key is still unregistered
C8_Witness ==
    \E c \in Conns :
        /\ conn[c].connection_id \in Keys
        /\ ndropped[conn[c].connection_id] > 0
        /\ conn[c].connection_id \notin DOMAIN active_connections

\* C9: a push whose write raises is attempted once, does not raise in the
\* caller, and leaves the key out of active_connections, subscriptions and
\* background_tasks, with the task that was recorded for it cancelled.
C9_SendFailureUnregisters ==
    [][\A k \in Keys :
          nfailed'[k] # nfailed[k]
          => /\ nfailed'[k] = nfailed[k] + 1
             /\ UNCHANGED <<delivered, conn>>
             /\ k \notin DOMAIN active_connections'
             /\ k \notin DOMAIN subscriptions'
             /\ k \notin DOMAIN background_tasks'
             /\ (k \in DOMAIN background_tasks
                 => CancelledAfter(background_tasks[k]))
       ]_vars

\* a write raised under the key of a task that was recorded and in flight:
\* the task has been cancelled while its connection is still in its loop
C9_Witness ==
    \E t \in Tasks :
        /\ task[t].pc # "unused" /\ task[t].cancel_requested
        /\ nfailed[task[t].connection_id] > 0
        /\ conn[task[t].origin].pc = "loop"
        /\ task[t].connection_id \notin DOMAIN active_connections

\* C10: the disconnect at the end of a receive loop removes the key from
\* the three dictionaries and cancels the recorded task; for a key that is
\* in none of them it changes nothing; and disconnecting twice is the same
\* as disconnecting once.
C10_DisconnectIdempotent ==
    [][\A c \in Conns :
          (conn[c].pc = "loop" /\ conn'[c].pc = "closed")
          => LET k == conn[c].connection_id
                 d == disconnect(State, k)
             IN  /\ k \notin DOMAIN active_connections'
                 /\ k \notin DOMAIN subscriptions'
                 /\ k \notin DOMAIN background_tasks'
                 /\ (k \in DOMAIN background_tasks
                     => CancelledAfter(background_tasks[k]))
                 /\ (k \notin (DOMAIN active_connections
                               \cup DOMAIN subscriptions
                               \cup DOMAIN background_tasks)
                     => UNCHANGED <<active_connections, subscriptions,
                                    background_tasks, task, delivered>>)
                 /\ disconnect(d, k) = d
       ]_vars

\* a receive loop has ended for a key that a failed write had already
\* unregistered and that no other connection uses: disconnect ran twice
C10_Witness ==
    \E c \in Conns :
        /\ conn[c].pc = "closed"
        /\ conn[c].connection_id \in Keys
        /\ nfailed[conn[c].connection_id] > 0
        /\ \A c2 \in Conns \ {c} :
              conn[c2].connection_id # conn[c].connection_id

\* C11: right after connect(websocket, key) the key has an empty subscription
\* set and no handle of a background task that is in flight, whatever
\* happened on the key before.
C11_ConnectStartsClean ==
    [][\A c \in Conns, k \in Keys :
          Connect(c, k)
          => /\ subscriptions'[k] = {}
             /\ (k \in DOMAIN background_tasks'
                 => task'[background_tasks'[k]].pc
                        \notin {"created", "awaiting_send", "calling"})
       ]_vars

IsInProgress(m) ==
    m.type = "container_action_result" /\ m.status = "in_progress"

\* C12: a websocket that is sent the terminal message of a container action
\* task that was not cancelled has been sent the in_progress message of that
\* task before it.
C12_InProgressThenTerminal ==
    \A c \in Conns : \A i \in 1..Len(delivered[c]) :
        (/\ IsTerminal(delivered[c][i])
         /\ ~task[delivered[c][i].container_id].cancel_requested
         /\ task[delivered[c][i].container_id].pc # "cancelled")
        => \E j \in 1..(i - 1) :
              /\ IsInProgress(delivered[c][j])
              /\ delivered[c][j].container_id = delivered[c][i].container_id

\* the terminal messages of the two kinds of task
IsTerminalMessage(m) ==
    IsTerminal(m) \/ m.type \in {"container_logs", "container_logs_error"}

\* where the terminal messages of task t are, on any websocket
TerminalsOf(t) ==
    UNION {{<<c, i>> : i \in {j \in 1..Len(delivered[c]) :
                                /\ delivered[c][j].container_id = t
                                /\ IsTerminalMessage(delivered[c][j])}} :
           c \in Conns}

\* C13: a background task delivers no terminal message before its
\* collaborator call has ended and never two; a task that has run to
\* completion without being cancelled, under a key none of whose pushes was
\* dropped or failed, has delivered one terminal message, of its own kind:
\* success or error for an action, container_logs or container_logs_error
\* for a log retrieval.
C13_ExactlyOneTerminal ==
    \A t \in Tasks :
        LET terminals == TerminalsOf(t)
        IN  /\ Cardinality(terminals) <= 1
            /\ task[t].pc \in {"unused", "created", "awaiting_send", "calling"}
               => terminals = {}
            /\ \A p \in terminals :
                  delivered[p[1]][p[2]]
                      \in {Terminal(t, TRUE), Terminal(t, FALSE)}
            /\ (/\ task[t].pc = "done"
                /\ ndropped[task[t].connection_id] = 0
                /\ nfailed[task[t].connection_id] = 0)
               => Cardinality(terminals) = 1

\* a container action and a log retrieval have both run to completion and
\* each has delivered its terminal message
C13_Witness ==
    \E t, u \in Tasks :
        /\ task[t].kind = "action" /\ task[t].pc = "done"
        /\ task[u].kind = "logs" /\ task[u].pc = "done"
        /\ Cardinality(TerminalsOf(t)) = 1
        /\ Cardinality(TerminalsOf(u)) = 1

\* C14: a synchronous request whose collaborator raises leaves the
\* connection in its receive loop, ready to read, and the registry as it
\* was; the websocket registered under the key, when its transport works, is
\* sent one message, of type error, whose text starts with the prefix of the
\* request ("Failed to kill process: " for kill_process).
C14_SyncFailureKeepsSession ==
    [][\A c \in Conns, type \in SyncTypes :
          RecvSync(c, type, FALSE)
          => LET k == conn[c].connection_id
             IN  /\ conn' = conn /\ running' = {}
                 /\ ErrorPrefix("kill_process") = "Failed to kill process: "
                 /\ IF /\ k \in DOMAIN active_connections
                       /\ alive[active_connections[k]]
                    THEN /\ delivered' =
                              [delivered EXCEPT ![active_connections[k]] =
                                  Append(@, Msg("error", "", 0,
                                                ErrorPrefix(type)))]
                         /\ UNCHANGED <<active_connections, subscriptions,
                                        background_tasks>>
                    ELSE UNCHANGED delivered
       ]_vars

\* a registered connection has been sent the error of a failed kill_process
\* and then the reply to a later request, and is still in its loop
C14_Witness ==
    \E c \in Conns :
        /\ conn[c].pc = "loop"
        /\ conn[c].connection_id \in DOMAIN active_connections
        /\ active_connections[conn[c].connection_id] = c
        /\ \E i \in 1..(Len(delivered[c]) - 1) :
              delivered[c][i] = Msg("error", "", 0, "Failed to kill process: ")

\* C15: a push under key k whose write raises leaves every other key as it
\* was: the same websocket, subscription set and task handle, with the
\* recorded task untouched; and a push to another key whose transport works
\* is delivered afterwards.
C15_FailureTearsDownOnlyItsKey ==
    [][\A k \in Keys :
          nfailed'[k] # nfailed[k]
          => \A k2 \in Keys \ {k} :
                /\ (k2 \in DOMAIN active_connections')
                       = (k2 \in DOMAIN active_connections)
                /\ (k2 \in DOMAIN subscriptions') = (k2 \in DOMAIN subscriptions)
                /\ (k2 \in DOMAIN background_tasks')
                       = (k2 \in DOMAIN background_tasks)
                /\ k2 \in DOMAIN active_connections
                   => active_connections'[k2] = active_connections[k2]
                /\ k2 \in DOMAIN subscriptions
                   => subscriptions'[k2] = subscriptions[k2]
                /\ k2 \in DOMAIN background_tasks
                   => /\ background_tasks'[k2] = background_tasks[k2]
                      /\ task'[background_tasks[k2]] = task[background_tasks[k2]]
                /\ (k2 \in DOMAIN active_connections
                    /\ alive[active_connections[k2]])
                   => (send_personal_message(State, Msg("metrics", "", 0, ""),
                                             k2).delivered[active_connections[k2]]
                       = Append(delivered[active_connections[k2]],
                                Msg("metrics", "", 0, "")))'
       ]_vars

\* a write under one key has raised and unregistered it, while another key
\* is registered with its task handle, and its websocket has been written to
C15_Witness ==
    \E k, k2 \in Keys :
        /\ k # k2
        /\ nfailed[k] > 0 /\ k \notin DOMAIN active_connections
        /\ k2 \in DOMAIN active_connections /\ k2 \in DOMAIN subscriptions
        /\ k2 \in DOMAIN background_tasks
        /\ ~task[background_tasks[k2]].cancel_requested
        /\ Len(delivered[active_connections[k2]]) > 0

\* C16: for a registered key, subscribing to a topic puts the topic in the
\* set and leaves the other topics as they were, subscribing twice is the
\* same as subscribing once, and unsubscribing from a topic that is not in
\* the set changes nothing.
C16_SubscribeIdempotent ==
    \A k \in DOMAIN subscriptions : \A topic \in DispatchTopics :
        LET once  == subscribe(State, k, topic)
            twice == subscribe(once, k, topic)
        IN  /\ twice = once
            /\ once.subscriptions[k] = subscriptions[k] \cup {topic}
            /\ Cardinality(once.subscriptions[k] \cap {topic}) = 1
            /\ once = [State EXCEPT !.subscriptions[k] = once.subscriptions[k]]
            /\ topic \notin subscriptions[k] => unsubscribe(State, k, topic) = State

\* the only connection has read two messages and holds one topic of the
\* two: a subscribe to the topic it holds, and an unsubscribe from the
\* other, have applied or apply in this state
C16_Witness ==
    \E c \in Conns :
        /\ conn[c].pc = "loop" /\ alive[c] /\ nevents = 3
        /\ \A d \in Conns \ {c} : conn[d].pc = "new"
        /\ conn[c].connection_id \in DOMAIN subscriptions
        /\ Cardinality(subscriptions[conn[c].connection_id]) = 1

\* C17: the keys that have a subscription set are the registered keys, and
\* for a key that is not registered subscribe and unsubscribe return the
\* state as it was: no entry is created in any dictionary and no other key
\* changes.
C17_UnregisteredIsNoOp ==
    /\ DOMAIN subscriptions = DOMAIN active_connections
    /\ \A k \in Keys \ DOMAIN active_connections : \A topic \in DispatchTopics :
          /\ subscribe(State, k, topic) = State
          /\ unsubscribe(State, k, topic) = State

\* the only connection has read two messages after its transport broke: the
\* reply to one failed and unregistered its key, the other was handled with
\* the key in no dictionary
C17_Witness ==
    \E c \in Conns :
        /\ conn[c].pc = "loop" /\ nevents = 4
        /\ \A d \in Conns \ {c} : conn[d].pc = "new"
        /\ conn[c].connection_id \in Keys
        /\ nfailed[conn[c].connection_id] = 1
        /\ conn[c].connection_id \notin DOMAIN subscriptions
        /\ conn[c].connection_id \notin DOMAIN active_connections

\* C18: a message whose type is none of the recognized tags pushes nothing,
\* delivers nothing, leaves the three dictionaries and the tasks as they
\* were, and leaves the connection in its loop, ready to read.
C18_UnknownTypeIgnored ==
    [][\A c \in Conns :
          RecvUnknown(c)
          => /\ UNCHANGED <<active_connections, subscriptions,
                            background_tasks, task, delivered, ndropped,
                            nfailed, conn>>
             /\ AtReceive(c)'
       ]_vars

\* the only connection is registered, its transport works, and it has read
\* two messages that left nothing behind
C18_Witness ==
    \E c \in Conns :
        /\ conn[c].pc = "loop" /\ alive[c] /\ nevents = 3
        /\ \A d \in Conns \ {c} : conn[d].pc = "new"
        /\ conn[c].connection_id \in DOMAIN active_connections
        /\ subscriptions[conn[c].connection_id] = {}
        /\ delivered[c] = << >>

\* C19: get_docker_containers raises on no state of the container runtime,
\* and a get_containers request is answered with containers_data however
\* the runtime is.
C19_ContainersFailClosed ==
    [][\A c \in Conns, runtime \in Runtimes :
          RecvGetContainers(c, runtime)
          => /\ ~get_docker_containers(runtime).raised
             /\ \A d \in Conns :
                   Pushed(d) => LastPushed(d).type = "containers_data"
       ]_vars

\* C20: on every process table and for every integer limit, get_processes
\* returns a list with no pid twice and with at most max(limit, 0) entries.
C20_AtMostLimitNoDuplicatePid ==
    result.called
    => /\ Len(result.value) <= (IF limit > 0 THEN limit ELSE 0)
       /\ \A i, j \in 1..Len(result.value) :
             i # j => result.value[i].pid # result.value[j].pid

\* C21: a synchronous request read by a connection whose key is registered
\* makes one push before the next read: the typed reply when the
\* collaborator returned, the error message when it raised.  The push is
\* written to the registered websocket when its transport works and counted
\* as failed otherwise; nothing else is written and nothing is dropped.
C21_OnePushPerSyncRequest ==
    [][\A c \in Conns, type \in SyncTypes, ok \in BOOLEAN :
          (RecvSync(c, type, ok)
           /\ conn[c].connection_id \in DOMAIN active_connections)
          => LET k  == conn[c].connection_id
                 ws == active_connections[k]
                 m  == IF ok THEN Msg(ReplyType(type), "", 0, "")
                             ELSE Msg("error", "", 0, ErrorPrefix(type))
             IN  /\ conn' = conn /\ ndropped' = ndropped
                 /\ IF alive[ws]
                    THEN /\ delivered' = [delivered EXCEPT ![ws] = Append(@, m)]
                         /\ nfailed' = nfailed
                    ELSE /\ delivered' = delivered
                         /\ nfailed' = [nfailed EXCEPT ![k] = @ + 1]
       ]_vars

\* the only connection has read two requests and has been sent two
\* messages: the reply to a get_system_info that returned and the error of a
\* kill_process that raised
C21_Witness ==
    \E c \in Conns :
        /\ conn[c].pc = "loop" /\ nevents = 3
        /\ \A d \in Conns \ {c} : conn[d].pc = "new"
        /\ delivered[c] = <<Msg("system_info", "", 0, ""),
                            Msg("error", "", 0, ErrorPrefix("kill_process"))>>

\* C22: every key that has a background task handle is a registered key.
C22_HandlesOnlyForRegistered ==
    DOMAIN background_tasks \subseteq DOMAIN active_connections

\* C23: when the receive loop of a connection ends while its key is
\* registered to a different connection that is open, the key stays
\* registered to that connection.
C23_LoopEndKeepsOtherRegistration ==
    [][\A c \in Conns :
          LET k == conn[c].connection_id
          IN  (/\ conn[c].pc = "loop" /\ conn'[c].pc = "closed"
               /\ k \in DOMAIN active_connections
               /\ active_connections[k] # c
               /\ conn[active_connections[k]].pc = "loop"
               /\ alive[active_connections[k]])
              => /\ k \in DOMAIN active_connections'
                 /\ active_connections'[k] = active_connections[k]
       ]_vars

\* C24: at every point where another coroutine can run, a key has a
\* websocket if and only if it has a subscription set.
C24_NotHalfTornDown ==
    \A k \in Keys :
        k \in DOMAIN active_connections <=> k \in DOMAIN subscriptions

\* one key is registered with an open connection and the other key has been
\* registered and torn down by the end of its connection's loop
C24_Witness ==
    \E c, d \in Conns :
        /\ conn[c].pc = "loop" /\ conn[d].pc = "closed"
        /\ conn[c].connection_id # conn[d].connection_id
        /\ conn[c].connection_id \in DOMAIN active_connections
        /\ conn[c].connection_id \in DOMAIN subscriptions
        /\ conn[d].connection_id \notin DOMAIN active_connections
        /\ conn[d].connection_id \notin DOMAIN subscriptions

\* C26: every handle in background_tasks refers to a task that has not
\* ended.
C26_HandleReleasedAtTaskEnd ==
    \A k \in DOMAIN background_tasks : InFlight(background_tasks[k])

\* the entry of key j in dictionary d is the same in both states of a step
SameEntry(d, e, j) ==
    /\ (j \in DOMAIN d) = (j \in DOMAIN e)
    /\ j \in DOMAIN d => d[j] = e[j]

\* a step that leaves every key other than k as it was: its websocket, its
\* subscription set, its task handle and the cancellation of its tasks
ConfinedTo(k) ==
    /\ \A j \in Keys \ {k} :
          /\ SameEntry(active_connections, active_connections', j)
          /\ SameEntry(subscriptions, subscriptions', j)
          /\ SameEntry(background_tasks, background_tasks', j)
    /\ \A t \in Tasks :
          (task[t].pc # "unused" /\ task[t].connection_id # k)
          => task'[t] = task[t]

\* a step of the receive loop of connection c
LoopStep(c) ==
    \/ \E topic \in Topics \cup {""} :
          RecvSubscribe(c, topic) \/ RecvUnsubscribe(c, topic)
    \/ \E type \in Requested, ok \in Returns : RecvSync(c, type, ok)
    \/ \E valid \in BOOLEAN :
          RecvContainerAction(c, valid) \/ RecvGetContainerLogs(c, valid)
    \/ RecvUnknown(c) \/ RecvMalformed(c) \/ RecvDisconnect(c)

\* a push of task t: the only place where a task touches the dictionaries
PushStep(t) ==
    \/ \E suspends \in BOOLEAN : ActionStart(t, suspends)
    \/ \E ok \in BOOLEAN : TaskCallEnd(t, ok)

\* C25: a handshake for key k, a step of the receive loop of a connection
\* of key k (subscribe, unsubscribe, a reply whose write fails, a background
\* request, the disconnect at the end of the loop) and a push of a task of
\* key k leave the websocket, the subscription set and the task handle of
\* every other key, and the tasks of every other key, unchanged.
C25_ConfinedToOwnKey ==
    [][/\ \A c \in Conns, k \in Keys : Connect(c, k) => ConfinedTo(k)
       /\ \A c \in Conns : LoopStep(c) => ConfinedTo(conn[c].connection_id)
       /\ \A t \in Tasks : PushStep(t) => ConfinedTo(task[t].connection_id)
      ]_vars

\* one connection was registered under one key and has been torn down, while
\* the other key is registered, subscribed to a topic and has a task handle
C25_Witness ==
    \E c, d \in Conns :
        /\ conn[c].pc = "closed" /\ conn[d].pc = "loop"
        /\ conn[c].connection_id # conn[d].connection_id
        /\ conn[c].connection_id \notin DOMAIN active_connections
        /\ conn[d].connection_id \in DOMAIN background_tasks
        /\ conn[d].connection_id \in DOMAIN active_connections
        /\ active_connections[conn[d].connection_id] = d
        /\ subscriptions[conn[d].connection_id] = Topics

\* task t was created by a container_action request
IsActionTask(t) == task[t].pc # "unused" /\ task[t].kind = "action"

\* the session that sent the request of task t is registered: its key is
\* registered to its own websocket
SessionRegistered(t) ==
    /\ task[t].connection_id \in DOMAIN active_connections
    /\ active_connections[task[t].connection_id] = task[t].origin

\* a terminal container_action_result of task t has been written to the
\* websocket that sent its request
TerminalDelivered(t) ==
    /\ IsActionTask(t)
    /\ \E i \in 1..Len(delivered[task[t].origin]) :
          LET m == delivered[task[t].origin][i]
          IN  IsTerminal(m) /\ m.container_id = t

\* C27: under the event loop's scheduling, and with a collaborator call
\* that returns or raises, a container_action request (with container_id
\* and action) read by a registered session leads to a terminal
\* container_action_result written to that session, unless the session
\* stops being registered; a later background request of the session does
\* not prevent it.
C27_ActionLeadsToTerminal ==
    \A t \in Tasks :
        (IsActionTask(t) /\ task[t].pc = "created" /\ SessionRegistered(t))
        ~> (TerminalDelivered(t) \/ (IsActionTask(t) /\ ~SessionRegistered(t)))

\* an action task whose collaborator raised has ended, its session is still
\* registered and has been sent the terminal error message
C27_Witness ==
    \E t \in Tasks :
        /\ IsActionTask(t) /\ task[t].pc = "done" /\ SessionRegistered(t)
        /\ \E i \in 1..Len(delivered[task[t].origin]) :
              delivered[task[t].origin][i] =
                  Msg("container_action_result", "error", t, "")

\* C28: an answered request whose action is not start, stop or restart has
\* status 400 and the collaborator was not called, and an answer of status
\* 500 is the answer to a request whose collaborator was called and raised.
C28_InvalidActionIs400 ==
    response.answered
    => /\ request.action \notin ValidActions
          => (response.status_code = 400 /\ ~response.called)
       /\ response.status_code = 500
          => /\ response.called
             /\ collaborator(request.endpoint, request.action,
                             request.command).raised

====
